---- MODULE Spec2Model ----
(***************************************************************************)
(* Verification model of the strategy pipeline of vibewater_associates:    *)
(*   - the batch workflow ResearchAgentService.run_autonomous_backtests    *)
(*     (backend/app/services/research_agent_service.py),                   *)
(*   - the two schema parsers (vectorbt_service.run_schema_backtest and    *)
(*     StrategyCodeGenerator),                                             *)
(*   - the equity series of the mock and the VectorBT backtest services.   *)
(*                                                                         *)
(* Numbers: metrics are kept as integers in the unit noted at each field;  *)
(* performance_score is kept in units of 1/10000 so that the weighted sum  *)
(* of research_agent_service.py:768-773 is exact.                          *)
(***************************************************************************)
EXTENDS Integers, Sequences, FiniteSets, TLC

VARIABLES
    \* ---- run_autonomous_backtests ----
    bpc,               \* position in run_autonomous_backtests
    strategies,        \* the list loaded at lines 600-608
    max_concurrent,    \* request.max_concurrent_tests
    backtest_tasks,    \* one entry per coroutine created at lines 611-614
    rankings,          \* the list the call returns (line 643 / 648)
    stored_rankings,   \* rows inserted by _store_performance_rankings
    \* ---- one backtest call (mock service or VectorBT service) ----
    bt_pc,             \* "idle" before the call, "done" after it
    bt_params,         \* BacktestParams: start_date, end_date, initial_capital
    bt_service,        \* which entry point ran
    bt_outcome,        \* what the caller gets: a BacktestRun or an exception
    equity_series,     \* BacktestRun.equity_series of a successful call
    cagr,              \* BacktestRun.metrics.cagr of a successful call
    \* ---- the two schema parsers ----
    schema,            \* the strategy schema handed to the parsers
    vbt_parse,         \* what run_schema_backtest derives from it (lines 17-109)
    gen_parse,         \* what generate_vectorbt_code derives from it
    \* ---- _extract_trades ----
    tr_pc,             \* "idle" before the call, "done" after it
    trade_records,     \* pf.trades.records_readable, one row per trade
    trades,            \* the list _extract_trades returns
    \* ---- one call of _calculate_performance_ranking ----
    sc_pc,             \* "idle" before the call, "done" after it
    score_strategy,    \* the ResearchedStrategy argument
    score_metrics,     \* the BacktestMetrics argument
    score_ranking,     \* the StrategyPerformanceRanking it returns
    \* ---- strategy executions (routers/executions.py) ----
    executions,        \* per execution: the persisted status, the position
                       \* of its _execute_workflow task and what went wrong
    polled,            \* the last answer of GET /executions/{id}
    status_writes,     \* whether the store accepts UPDATEs of the status
    backtest_runs,     \* the rows of the table backtest_runs
    \* ---- one call of StrategyResearchService.research ----
    rs_pc,             \* "idle" before the call, "done" after it
    rs_request,        \* the fields of the request the ranking reads
    rs_backtests,      \* per candidate, in the order of generation: what
                       \* run_schema_backtest gave
    all_candidates,    \* ResearchResult.all_candidates
    top_candidates,    \* ResearchResult.top_candidates
    \* ---- one call of execute_python_code_tool ----
    tool_pc,           \* "idle" before the call, "done" after it
    tool_call,         \* what happens to the call: the write of the code
                       \* file, the subprocess, its stdout
    tool_result,       \* the JSON object the tool returns
    temp_file          \* the temporary code file: "none", "exists", "removed"

batchVars == <<bpc, strategies, max_concurrent, backtest_tasks, rankings, stored_rankings>>

btVars == <<bt_pc, bt_params, bt_service, bt_outcome, equity_series, cagr>>

parseVars == <<schema, vbt_parse, gen_parse>>

tradeVars == <<tr_pc, trade_records, trades>>

scoreVars == <<sc_pc, score_strategy, score_metrics, score_ranking>>

execVars == <<executions, polled, status_writes, backtest_runs>>

researchVars == <<rs_pc, rs_request, rs_backtests, all_candidates, top_candidates>>

toolVars == <<tool_pc, tool_call, tool_result, temp_file>>

extVars == <<tradeVars, scoreVars, execVars, researchVars, toolVars>>

vars == <<batchVars, btVars, parseVars, extVars>>

----------------------------------------------------------------------------
(* Bounds *)

MaxStrategies == 3

\* Time is counted in ticks, TicksPerDay ticks to a calendar day, so that a
\* start_date or end_date may carry a time of day.
TicksPerDay == 2
MaxStartTick == 2
\* end_date lies in 0..MaxTick, or more than MaxPoints days after tick 0
MaxTick == 7
\* number of [timestamp, price] pairs in a CoinGecko answer
MaxRaw == 3
\* phrases in all entry rules together, rule strings per entry node, nodes
\* per schema
MaxPhrases == 3
MaxRules == 2
MaxNodes == 3
\* rows of pf.trades.records_readable
MaxTrades == 11
\* executions started by POST /executions/strategies/{id}/execute
MaxExecutions == 2
\* candidates generated by one call of research
MaxCandidates == 2
\* pieces of the stdout of the executed code
MaxOut == 3

----------------------------------------------------------------------------
(* Generic helpers *)

Abs(x) == IF x < 0 THEN -x ELSE x
Min2(a, b) == IF a < b THEN a ELSE b
Max2(a, b) == IF a > b THEN a ELSE b

----------------------------------------------------------------------------
(* ResearchAgentService: strategies, mock metrics, scoring *)

\* The strategies a request can load.  id stands for the string strategy id
\* (single digits, so string order and number order agree); confidence_score
\* is in tenths; expected_return in percent.
StrategyPool ==
    { [id |-> 1, expected_return |-> 10,  risk_level |-> "medium", confidence10 |-> 5],
      [id |-> 2, expected_return |-> 100, risk_level |-> "low",    confidence10 |-> 8],
      [id |-> 3, expected_return |-> 100, risk_level |-> "high",   confidence10 |-> 8],
      [id |-> 4, expected_return |-> 10,  risk_level |-> "medium", confidence10 |-> 5] }

\* Sequences without repetition over S, of length at most n.
InjSeqs(S, n) ==
    UNION { { f \in [1..k -> S] : \A i, j \in 1..k : i # j => f[i] # f[j] } : k \in 0..n }

\* The values random.uniform / random.randint deliver in _generate_mock_metrics,
\* one record per call: u_return10 in [7,13] (tenths), u_sharpe10 in [5,25]
\* (tenths), u_drawdown in [-20,-5], win_rate in [45,75], trades in [50,200],
\* vs_benchmark in [-5,15].
MockDraws ==
    { [u_return10 |-> 10, u_sharpe10 |-> 10, u_drawdown |-> -10, win_rate |-> 60, trades |-> 100, vs_benchmark |-> 5],
      [u_return10 |-> 13, u_sharpe10 |-> 25, u_drawdown |-> -20, win_rate |-> 75, trades |-> 200, vs_benchmark |-> 15],
      [u_return10 |-> 7,  u_sharpe10 |-> 5,  u_drawdown |-> -10, win_rate |-> 45, trades |-> 50,  vs_benchmark |-> -5] }

\* volatility = {"low": 0.8, "medium": 1.0, "high": 1.3}[risk_level], in tenths
Volatility10(risk_level) ==
    CASE risk_level = "low"    -> 8
      [] risk_level = "medium" -> 10
      [] risk_level = "high"   -> 13

\* _generate_mock_metrics: total_return in percent, sharpe10 in tenths,
\* max_drawdown in percent (negative), win_rate in percent.
GenerateMockMetrics(strategy, d) ==
    [ total_return |-> (strategy.expected_return * d.u_return10) \div 10,
      sharpe10     |-> d.u_sharpe10 * (IF strategy.risk_level = "low" THEN 2 ELSE 1),
      max_drawdown |-> (d.u_drawdown * Volatility10(strategy.risk_level)) \div 10,
      win_rate     |-> d.win_rate,
      trades       |-> d.trades,
      vs_benchmark |-> d.vs_benchmark,
      mock         |-> TRUE ]

\* performance_score before the clamp, in units of 1/10000:
\*   risk_adjusted_return*0.4 + consistency*100*0.3 + adaptability*100*0.2
\*   + confidence*100*0.1
RawScore(strategy, m) ==
      400 * m.sharpe10 * m.total_return
    + 30 * m.win_rate * (100 - Abs(m.max_drawdown))
    + 20 * (m.vs_benchmark + 100) * Min2(m.trades, 100)
    + 10000 * strategy.confidence10

\* Variant without the clamp of line 775.
NoClamp(x) == x

\* max(0, min(100, performance_score)), in units of 1/10000
ClampScore(x) == Max2(0, Min2(1000000, x))

\* _calculate_performance_ranking(strategy, metrics, initial_rank); src is
\* the position of the strategy in the zip of line 621 (initial_rank = src).
CalculatePerformanceRanking(strategy, m, initial_rank) ==
    [ strategy_id       |-> strategy.id,
      performance_score |-> ClampScore(RawScore(strategy, m)),
      metrics           |-> m,
      risk_adjusted_return10 |-> m.sharpe10 * m.total_return,
      consistency_score4     |-> m.win_rate * (100 - Abs(m.max_drawdown)),
      market_adaptability4   |-> (m.vs_benchmark + 100) * Min2(m.trades, 100),
      src               |-> initial_rank,
      rank              |-> initial_rank ]

\* Variant of the sort without reverse=True (ascending by score).
RECURSIVE InsertByScoreAsc(_, _)
InsertByScoreAsc(x, s) ==
    IF s = <<>> THEN <<x>>
    ELSE IF Head(s).performance_score <= x.performance_score
         THEN <<Head(s)>> \o InsertByScoreAsc(x, Tail(s))
         ELSE <<x>> \o s

RECURSIVE SortByScoreAsc(_)
SortByScoreAsc(s) ==
    IF s = <<>> THEN <<>>
    ELSE InsertByScoreAsc(s[Len(s)], SortByScoreAsc(SubSeq(s, 1, Len(s) - 1)))

\* rankings.sort(key=lambda x: x.performance_score, reverse=True): a stable
\* sort, descending by key; equal keys keep their relative order.
RECURSIVE InsertByScoreDesc(_, _)
InsertByScoreDesc(x, s) ==
    IF s = <<>> THEN <<x>>
    ELSE IF Head(s).performance_score >= x.performance_score
         THEN <<Head(s)>> \o InsertByScoreDesc(x, Tail(s))
         ELSE <<x>> \o s

RECURSIVE SortByScoreDesc(_)
SortByScoreDesc(s) ==
    IF s = <<>> THEN <<>>
    ELSE InsertByScoreDesc(s[Len(s)], SortByScoreDesc(SubSeq(s, 1, Len(s) - 1)))

\* Variant without the renumbering loop: the initial rank stays.
KeepInitialRanks(s) == s

\* for i, ranking in enumerate(rankings): ranking.rank = i + 1
UpdateRanks(s) == [ i \in 1..Len(s) |-> [ s[i] EXCEPT !.rank = i ] ]

\* strategies[:request.max_concurrent_tests]; a negative limit counts from
\* the end of the list
Prefix(s, n) ==
    IF n >= 0 THEN SubSeq(s, 1, Min2(Len(s), n))
    ELSE SubSeq(s, 1, Max2(0, Len(s) + n))

\* lines 620-627: zip(strategies, backtest_results), skipping every result
\* that is an exception instead of a BacktestMetrics
RECURSIVE CollectRankings(_, _, _)
CollectRankings(strats, results, i) ==
    IF i > Min2(Len(strats), Len(results)) THEN <<>>
    ELSE IF results[i].kind # "metrics"
         THEN CollectRankings(strats, results, i + 1)
         ELSE <<CalculatePerformanceRanking(strats[i], results[i].metrics, i)>>
              \o CollectRankings(strats, results, i + 1)

\* Variant that returns as soon as one awaitable has finished
\* (asyncio.wait with FIRST_COMPLETED).
GatherFirstCompleted(tasks) == \E i \in 1..Len(tasks) : tasks[i].st = "done"

\* asyncio.gather(*backtest_tasks, return_exceptions=True) returns when
\* every awaitable has finished.
GatherDone(tasks) == \A i \in 1..Len(tasks) : tasks[i].st = "done"

----------------------------------------------------------------------------
(* run_autonomous_backtests as a state machine *)

NoTask == [st |-> "pending", exec |-> "none", result |-> [kind |-> "none"]]

BatchIdle ==
    /\ bpc = "idle"
    /\ strategies = <<>>
    /\ max_concurrent = 0
    /\ backtest_tasks = <<>>
    /\ rankings = <<>>
    /\ stored_rankings = <<>>

\* lines 598-614: load the strategies and create one coroutine per strategy
\* of strategies[:max_concurrent_tests].
CreateTasks ==
    /\ bpc = "idle"
    /\ \E strats \in InjSeqs(StrategyPool, MaxStrategies), mc \in (-1)..MaxStrategies :
         /\ strategies' = strats
         /\ max_concurrent' = mc
         /\ backtest_tasks' = [ i \in 1..Len(Prefix(strats, mc)) |-> NoTask ]
    /\ bpc' = "gathering"
    /\ UNCHANGED <<rankings, stored_rankings, btVars, parseVars, extVars>>

\* _run_strategy_backtest up to its first suspension: the call of
\* strategy_execution_service.execute_strategy (line 713) is awaited.
StartBacktest(i) ==
    /\ bpc = "gathering"
    /\ i \in 1..Len(backtest_tasks)
    /\ backtest_tasks[i].st = "pending"
    /\ backtest_tasks' = [backtest_tasks EXCEPT ![i].st = "running"]
    /\ UNCHANGED <<bpc, strategies, max_concurrent, rankings, stored_rankings, btVars, parseVars, extVars>>

\* The rest of _run_strategy_backtest (lines 713-729).  execute_strategy
\* either raises (no database, insert failed) or returns a StrategyExecution;
\* that object is a pydantic model without a get method, so line 720 raises
\* AttributeError.  Both ways the handler of line 727 returns mock metrics.
FinishBacktest(i) ==
    /\ bpc = "gathering"
    /\ i \in 1..Len(backtest_tasks)
    /\ backtest_tasks[i].st = "running"
    /\ \E ex \in {"raised", "returned"}, d \in MockDraws :
         backtest_tasks' = [backtest_tasks EXCEPT ![i] =
             [ st |-> "done", exec |-> ex,
               result |-> [kind |-> "metrics",
                           metrics |-> GenerateMockMetrics(strategies[i], d)] ]]
    /\ UNCHANGED <<bpc, strategies, max_concurrent, rankings, stored_rankings, btVars, parseVars, extVars>>

\* lines 617-643 after gather has returned: rank, sort, renumber, store and
\* return.  _store_performance_rankings swallows database errors, so the
\* rows are stored or not.
RankAndReturn ==
    /\ bpc = "gathering"
    /\ GatherDone(backtest_tasks)
    /\ LET results == [ i \in 1..Len(backtest_tasks) |-> backtest_tasks[i].result ]
           ranked  == UpdateRanks(SortByScoreDesc(CollectRankings(strategies, results, 1)))
       IN  /\ rankings' = ranked
           /\ \E db_ok \in BOOLEAN :
                stored_rankings' = IF db_ok THEN ranked ELSE <<>>
    /\ bpc' = "returned"
    /\ UNCHANGED <<strategies, max_concurrent, backtest_tasks, btVars, parseVars, extVars>>

NextBatch ==
    \/ CreateTasks
    \/ \E i \in 1..MaxStrategies : StartBacktest(i)
    \/ \E i \in 1..MaxStrategies : FinishBacktest(i)
    \/ RankAndReturn

----------------------------------------------------------------------------
(* Backtest services: dates of the equity series and outcome of a call *)

\* num_points = min(days, 100)
MaxPoints == 100

Capitals == {-1000, 0, 10000}

\* strftime("%Y-%m-%d") of a timestamp: the calendar day it falls on
DayOf(t) == t \div TicksPerDay

\* BacktestService._generate_equity_curve: days = (end - start).days,
\* num_points = min(days, 100), point i (from 0) is dated
\* start + timedelta(days = i * (days / num_points)).
GenerateEquityCurve(start_t, end_t) ==
    LET days == (end_t - start_t) \div TicksPerDay
        num_points == Min2(days, MaxPoints)
    IN  IF num_points <= 0 THEN <<>>
        ELSE [ i \in 1..num_points |->
                 [date |-> (start_t * num_points + TicksPerDay * (i - 1) * days)
                              \div (TicksPerDay * num_points)] ]

\* A reported CAGR: "zero" (the guard answered 0), "formula" (the value
\* ((final_value / initial_capital) ** (1 / years) - 1) * 100 for
\* years = num / den), "nonfinite" (inf or nan), "none" (no report)
Cagr(kind, num, den) == [kind |-> kind, num |-> num, den |-> den]
NoCagr == Cagr("none", 0, 1)

\* BacktestService._calculate_cagr(initial, final, years), years = num / den
CalculateCagr(initial, num, den) ==
    IF num <= 0 \/ initial <= 0 THEN Cagr("zero", 0, 1) ELSE Cagr("formula", num, den)

\* BacktestService.run_backtest: equity_series[-1] raises IndexError on an
\* empty curve; total_return divides by initial_capital; the CAGR is
\* _calculate_cagr(initial_capital, final_value, 1).
MockRunBacktest(p) ==
    LET eq == GenerateEquityCurve(p.start_date, p.end_date)
    IN  IF eq = <<>> THEN [kind |-> "IndexError", equity |-> <<>>, cagr |-> NoCagr]
        ELSE IF p.initial_capital = 0
        THEN [kind |-> "ZeroDivisionError", equity |-> <<>>, cagr |-> NoCagr]
        ELSE [kind |-> "ok", equity |-> eq, cagr |-> CalculateCagr(p.initial_capital, 1, 1)]

\* Ascending sequence of the elements of a finite set of integers
RECURSIVE SortedSeq(_)
SortedSeq(S) ==
    IF S = {} THEN <<>>
    ELSE LET m == CHOOSE x \in S : \A y \in S : x <= y
         IN  <<m>> \o SortedSeq(S \ {m})

Reverse(s) == [ i \in 1..Len(s) |-> s[Len(s) + 1 - i] ]

\* _fetch_coingecko_data: the [timestamp, price] pairs of the answer, put in
\* a frame indexed by time, then resample('D').last().dropna(): one bar per
\* calendar day that has data, in ascending order of day.
FetchCoingeckoIndex(raw) == SortedSeq({ DayOf(raw[i]) : i \in 1..Len(raw) })

\* The answers CoinGecko may give for a range: up to MaxRaw timestamps inside
\* the range, in any order (data only for the first ticks of a long range).
CoingeckoAnswers(p) ==
    LET ticks == { t \in p.start_date..p.end_date : t - p.start_date <= MaxTick }
    IN  UNION { [1..k -> ticks] : k \in 0..MaxRaw }

\* vbt.YFData.download(...).get('Close'): daily bars of the provider inside
\* the range, ascending by date; any days may be missing.
YahooIndexes(p) ==
    LET days == { DayOf(t) : t \in { u \in p.start_date..p.end_date : u - p.start_date <= MaxTick } }
    IN  { SortedSeq(D) : D \in SUBSET days }

\* _generate_mock_btc_data: pd.date_range(start, end, freq='D')
GenerateMockBtcIndex(p) ==
    IF p.end_date < p.start_date THEN <<>>
    ELSE [ i \in 1..((p.end_date - p.start_date) \div TicksPerDay + 1) |->
             DayOf(p.start_date + TicksPerDay * (i - 1)) ]

\* Variant of _create_equity_series that walks the index backwards.
CreateEquitySeriesReversed(index) == Reverse([ i \in 1..Len(index) |-> [date |-> index[i]] ])

\* _create_equity_series: one point per bar of portfolio_value, in index order
CreateEquitySeries(index) == [ i \in 1..Len(index) |-> [date |-> index[i]] ]

\* Everything after the price series is known (lines 64-176 / 224-338).
\* An empty mock series makes _generate_mock_btc_data raise IndexError at
\* prices[0]; that and any exception of the library are re-raised by the
\* outer handler as Exception("VectorBT ... backtest failed: ...").
\* years = (end_date - start_date).days / 365.25, as the fraction
\* 4 * days / 1461
YearsNum(p) == 4 * ((p.end_date - p.start_date) \div TicksPerDay)
YearsDen == 1461

\* cagr = ((final_value / initial_capital) ** (1 / years) - 1) * 100
\* if years > 0 else 0.  With initial_capital = 0 the quotient is a division
\* by zero, with a negative initial_capital the power has a negative base:
\* depending on the number type the library returns, the expression raises
\* or gives inf / nan.
VbtCagrs(p) ==
    IF YearsNum(p) <= 0 THEN { Cagr("zero", 0, 1) }
    ELSE IF p.initial_capital > 0 THEN { Cagr("formula", YearsNum(p), YearsDen) }
    ELSE { Cagr("nonfinite", 0, 1), Cagr("raised", 0, 1) }

VbtOutcomes(index, p) ==
    IF index = <<>> THEN { [kind |-> "Exception", equity |-> <<>>, cagr |-> NoCagr] }
    ELSE { [kind |-> "ok", equity |-> CreateEquitySeries(index), cagr |-> c] :
             c \in VbtCagrs(p) \ { Cagr("raised", 0, 1) } }
         \cup { [kind |-> "Exception", equity |-> <<>>, cagr |-> NoCagr] }

BacktestIdle ==
    /\ bt_pc = "idle"
    /\ bt_service = "none"
    /\ bt_outcome = [kind |-> "none"]
    /\ equity_series = <<>>
    /\ cagr = NoCagr

EndTicks == (0..MaxTick) \cup { TicksPerDay * MaxPoints + k * MaxPoints : k \in 0..MaxTick }

FinishCall(service, outcome) ==
    /\ bt_pc' = "done"
    /\ bt_service' = service
    /\ bt_outcome' = [kind |-> outcome.kind]
    /\ equity_series' = outcome.equity
    /\ cagr' = outcome.cagr
    /\ UNCHANGED <<bt_params, batchVars, parseVars, extVars>>

\* BacktestService.run_backtest (mock service)
RunBacktest ==
    /\ bt_pc = "idle"
    /\ FinishCall("mock", MockRunBacktest(bt_params))

\* VectorBTBacktestService.run_bitcoin_backtest: CoinGecko, then Yahoo
\* Finance, then generated mock data
RunBitcoinBacktest ==
    /\ bt_pc = "idle"
    /\ \E index \in { FetchCoingeckoIndex(raw) : raw \in CoingeckoAnswers(bt_params) \ {<<>>} }
                     \cup (YahooIndexes(bt_params) \ {<<>>})
                     \cup { GenerateMockBtcIndex(bt_params) } :
         \E o \in VbtOutcomes(index, bt_params) : FinishCall("bitcoin", o)

\* VectorBTBacktestService.run_schema_backtest: Yahoo Finance, then
\* generated mock data
RunSchemaBacktest ==
    /\ bt_pc = "idle"
    /\ \E index \in (YahooIndexes(bt_params) \ {<<>>}) \cup { GenerateMockBtcIndex(bt_params) } :
         \E o \in VbtOutcomes(index, bt_params) : FinishCall("schema", o)

NextBacktest ==
    \/ RunBacktest
    \/ RunBitcoinBacktest
    \/ RunSchemaBacktest

----------------------------------------------------------------------------
(* Rule texts.  A rule string is a sequence of words; a word is a number, *)
(* "day" (written "10-day" or "10 day" after a number), "MA",             *)
(* "moving average", "crosses", "above", "below", "RSI", "MACD",          *)
(* "Bollinger".  The regular expressions of the two parsers are           *)
(* evaluated on these words, digits included where a pattern can split a  *)
(* number.                                                                *)

Tok(kind, n) == [k |-> kind, n |-> n]

Periods == {5, 20}

Phrases ==
    { <<Tok("num", n), Tok("day", 0), Tok("ma", 0)>> : n \in Periods }
    \cup { <<Tok("num", n), Tok("day", 0), Tok("movavg", 0)>> : n \in Periods }
    \cup { <<Tok("crosses", 0), Tok("above", 0)>>,
           <<Tok("rsi", 0)>>,
           <<Tok("rsi", 0), Tok("num", 14)>>,
           <<Tok("below", 0), Tok("num", 25)>>,
           <<Tok("above", 0), Tok("num", 75)>>,
           <<Tok("macd", 0)>>,
           <<Tok("bollinger", 0)>> }

RECURSIVE Flatten(_)
Flatten(ss) == IF ss = <<>> THEN <<>> ELSE Head(ss) \o Flatten(Tail(ss))

\* The phrases ps cut into rule strings after the positions of cuts
RECURSIVE CutAt(_, _, _)
CutAt(ps, cuts, from) ==
    IF from > Len(ps) THEN <<>>
    ELSE LET later == { c \in cuts : c >= from }
             to == IF later = {} THEN Len(ps)
                   ELSE CHOOSE c \in later : \A d \in later : c <= d
         IN  <<Flatten(SubSeq(ps, from, to))>> \o CutAt(ps, cuts, to + 1)

IsNumDay(r, i) == i + 1 <= Len(r) /\ r[i].k = "num" /\ r[i + 1].k = "day"

MinOf(S) == CHOOSE x \in S : \A y \in S : x <= y
MaxOf(S) == CHOOSE x \in S : \A y \in S : x >= y

None == [some |-> FALSE, a |-> 0, b |-> 0, c |-> 0]
Some(a, b, c) == [some |-> TRUE, a |-> a, b |-> b, c |-> c]

\* re.search(r'(\d+)[-\s]?day\s+moving\s+average', rule_lower)
SearchMovingAverage(r) ==
    LET I == { i \in 1..Len(r) : IsNumDay(r, i) /\ i + 2 <= Len(r) /\ r[i + 2].k = "movavg" }
    IN  IF I = {} THEN None ELSE Some(r[MinOf(I)].n, 0, 0)

\* re.search(r'rsi[^\d]*(\d+)', rule_lower): the first number after the
\* first "rsi"
SearchRsiPeriod(r) ==
    LET R == { i \in 1..Len(r) : r[i].k = "rsi" }
        N == IF R = {} THEN {} ELSE { j \in 1..Len(r) : j > MinOf(R) /\ r[j].k = "num" }
    IN  IF N = {} THEN None ELSE Some(r[MinOf(N)].n, 0, 0)

HasWord(r, w) == \E i \in 1..Len(r) : r[i].k = w

\* re.search(r"(\d+)[-\s]?day\s+MA\s+crosses\s+above\s+(\d+)[-\s]?day", rule)
SearchMaCrossesAbove(r) ==
    LET I == { i \in 1..Len(r) :
                 /\ IsNumDay(r, i)
                 /\ i + 6 <= Len(r)
                 /\ r[i + 2].k = "ma"
                 /\ r[i + 3].k = "crosses"
                 /\ r[i + 4].k = "above"
                 /\ IsNumDay(r, i + 5) }
    IN  IF I = {} THEN None ELSE Some(r[MinOf(I)].n, r[MinOf(I) + 5].n, 0)

\* re.search(r"(\d+)[-\s]?day\s+moving\s+average.*(\d+)[-\s]?day", rule):
\* the greedy .* leaves only the last digit of the last "<n>-day" to the
\* second group.
SearchMovingAverageThenDay(r) ==
    LET I == { i \in 1..Len(r) :
                 /\ IsNumDay(r, i)
                 /\ i + 2 <= Len(r)
                 /\ r[i + 2].k = "movavg"
                 /\ \E j \in (i + 3)..Len(r) : IsNumDay(r, j) }
    IN  IF I = {} THEN None
        ELSE LET i == MinOf(I)
                 j == MaxOf({ x \in (i + 3)..Len(r) : IsNumDay(r, x) })
             IN  Some(r[i].n, r[j].n % 10, 0)

IsWordNum(r, i, w) == i + 1 <= Len(r) /\ r[i].k = w /\ r[i + 1].k = "num"

\* re.search(r"rsi[^\d]*(\d+).*below\s*(\d+).*above\s*(\d+)", rule): the
\* first number after "rsi", then the last "below <n>" that still has an
\* "above <n>" behind it, then the last "above <n>".
SearchRsiBelowAbove(r) ==
    LET p == SearchRsiPeriod(r)
        R == { i \in 1..Len(r) : r[i].k = "rsi" }
        a == MinOf({ j \in 1..Len(r) : j > MinOf(R) /\ r[j].k = "num" })
        B == { b \in 1..Len(r) :
                 /\ b > a
                 /\ IsWordNum(r, b, "below")
                 /\ \E c \in (b + 2)..Len(r) : IsWordNum(r, c, "above") }
    IN  IF ~p.some THEN None
        ELSE IF B = {} THEN None
        ELSE LET b == MaxOf(B)
                 c == MaxOf({ x \in (b + 2)..Len(r) : IsWordNum(r, x, "above") })
             IN  Some(p.a, r[b + 1].n, r[c + 1].n)

----------------------------------------------------------------------------
(* Schemas *)

\* A node's meta.  category is "absent" or the name; rules_kind says whether
\* meta has 'rules' and whether it is a list; stop_kind / target_kind say
\* whether the key is there and what it holds: a number, a numeric string,
\* another string, or null.
Meta(cat, rk, rules, sk, sv, tk, tv) ==
    [ category |-> cat, rules_kind |-> rk, rules |-> rules,
      stop_kind |-> sk, stop_pct |-> sv, target_kind |-> tk, target_pct |-> tv ]

EmptyMeta == Meta("absent", "absent", <<>>, "absent", 0, "absent", 0)

\* meta_kind: "mapping", "absent" (no 'meta' key) or "other" (null, a
\* string, a list)
Node(type, mk, meta) == [type |-> type, meta_kind |-> mk, meta |-> meta]

\* shape says where the meta of the nodes sits: in node.data['meta'] (the
\* StrategyNode objects of research_service.py), in node['meta'] (the JSON
\* of test_strategy_execution.py), or in both places.
Schema(nodes, shape) == [nodes |-> nodes, shape |-> shape]

\* The value under stop_pct / target_pct where it is a number or a numeric
\* string (a value that is neither default, 5.0 or 7.0)
SamplePct == 3

\* The rules of the entry node of the sample strategies:
\* "Enter when 5-day MA crosses above 20-day moving average"
SampleRules ==
    << <<Tok("num", 5), Tok("day", 0), Tok("ma", 0), Tok("crosses", 0), Tok("above", 0),
         Tok("num", 20), Tok("day", 0), Tok("movavg", 0)>> >>

PctKinds == {"absent", "num", "numstr", "text"}

NodeVariants ==
    { Node("start", "absent", EmptyMeta) }
    \cup { Node("category", "mapping", Meta(c, "absent", <<>>, "absent", 0, "absent", 0)) :
             c \in {"absent", "Ethereum"} }
    \cup { Node("entry_condition", "mapping", Meta("absent", "list", SampleRules, "absent", 0, "absent", 0)),
           Node("entry_condition", "mapping", Meta("absent", "null", <<>>, "absent", 0, "absent", 0)) }
    \cup { Node("take_profit", "mapping",
                Meta("absent", "absent", <<>>, "absent", 0, k, IF k \in {"num", "numstr"} THEN SamplePct ELSE 0)) :
             k \in PctKinds }
    \cup { Node("stop_loss", "mapping",
                Meta("absent", "absent", <<>>, k, IF k \in {"num", "numstr"} THEN SamplePct ELSE 0, "absent", 0)) :
             k \in PctKinds }
    \cup { Node("category", "absent", EmptyMeta), Node("stop_loss", "other", EmptyMeta) }

Shapes == {"data", "top", "both"}

----------------------------------------------------------------------------
(* VectorBTBacktestService.run_schema_backtest, lines 17-109 *)

Signal(kind, x, y, z) == [kind |-> kind, x |-> x, y |-> y, z |-> z]

\* fast and slow window of the default crossover (lines 106-107)
DefaultFast == 10
DefaultSlow == 30

Pct(set, val) == [set |-> set, val |-> val]

\* float(x): defined for a number and a numeric string
FloatOk(kind) == kind \in {"num", "numstr"}

\* node_data.get('meta', {}) as run_schema_backtest sees it: node.data of a
\* StrategyNode is a dict, so only its 'meta' entry matters.
VbtMetaKind(sch, node) == IF sch.shape \in {"data", "both"} THEN node.meta_kind ELSE "absent"

VbtAcc0 == [ status |-> "ok", symbol |-> "BTC-USD", entry_rules |-> <<>>,
             stop_loss_pct |-> Pct(FALSE, 0), take_profit_pct |-> Pct(FALSE, 0) ]

\* One pass of the loop of lines 30-47 over one node.
VbtNodeStep(sch, node, acc) ==
    LET mk == VbtMetaKind(sch, node)
        m  == IF mk = "mapping" THEN node.meta ELSE EmptyMeta
        consulted == node.type \in {"category", "crypto_category", "entry_condition", "entry",
                                    "take_profit", "exit_target", "stop_loss"}
    IN  IF consulted /\ mk = "other"
        THEN [acc EXCEPT !.status = "raised"]        \* meta.get on a non-mapping
        ELSE IF node.type \in {"category", "crypto_category"}
        THEN [acc EXCEPT !.symbol = IF m.category \in {"Ethereum", "Layer1"}
                                    THEN "ETH-USD" ELSE "BTC-USD"]
        ELSE IF node.type \in {"entry_condition", "entry"}
        THEN IF m.rules_kind = "list"
             THEN [acc EXCEPT !.entry_rules = acc.entry_rules \o m.rules]
             ELSE acc
        ELSE IF node.type \in {"take_profit", "exit_target"}
        THEN IF m.target_kind = "absent" THEN [acc EXCEPT !.take_profit_pct = Pct(TRUE, 7)]
             ELSE IF FloatOk(m.target_kind)
             THEN [acc EXCEPT !.take_profit_pct = Pct(TRUE, m.target_pct)]
             ELSE [acc EXCEPT !.status = "raised"]
        ELSE IF node.type = "stop_loss"
        THEN IF m.stop_kind = "absent" THEN [acc EXCEPT !.stop_loss_pct = Pct(TRUE, 5)]
             ELSE IF FloatOk(m.stop_kind)
             THEN [acc EXCEPT !.stop_loss_pct = Pct(TRUE, m.stop_pct)]
             ELSE [acc EXCEPT !.status = "raised"]
        ELSE acc

RECURSIVE VbtScanNodes(_, _, _)
VbtScanNodes(sch, i, acc) ==
    IF i > Len(sch.nodes) \/ acc.status = "raised" THEN acc
    ELSE VbtScanNodes(sch, i + 1, VbtNodeStep(sch, sch.nodes[i], acc))

\* lines 70-77: the first rule that matches one of the two MA patterns
RECURSIVE VbtMaMatch(_)
VbtMaMatch(rules) ==
    IF rules = <<>> THEN None
    ELSE LET m1 == SearchMaCrossesAbove(Head(rules))
             m2 == SearchMovingAverageThenDay(Head(rules))
         IN  IF m1.some THEN m1
             ELSE IF m2.some THEN m2
             ELSE VbtMaMatch(Tail(rules))

\* lines 87-92: the first rule that matches the RSI pattern
RECURSIVE VbtRsiMatch(_)
VbtRsiMatch(rules) ==
    IF rules = <<>> THEN None
    ELSE LET m == SearchRsiBelowAbove(Head(rules))
         IN  IF m.some THEN m ELSE VbtRsiMatch(Tail(rules))

\* lines 64-109: the signal rule used for the simulation
VbtSignal(rules) ==
    LET ma == VbtMaMatch(rules)
        rsi == VbtRsiMatch(rules)
    IN  IF ma.some THEN Signal("MA", ma.a, ma.b, 0)
        ELSE IF rsi.some THEN Signal("RSI", rsi.a, rsi.b, rsi.c)
        ELSE Signal("MA", DefaultFast, DefaultSlow, 0)

\* run_schema_backtest up to the signals; an exception in the loop is
\* re-raised at line 180 as Exception("VectorBT schema backtest failed: ...")
VbtParse(sch) ==
    LET acc == VbtScanNodes(sch, 1, VbtAcc0)
    IN  IF acc.status = "raised"
        THEN [ status |-> "raised", symbol |-> "", entry_rules |-> <<>>,
               stop_loss_pct |-> Pct(FALSE, 0), take_profit_pct |-> Pct(FALSE, 0),
               ma_match |-> None, rsi_match |-> None, signal |-> Signal("none", 0, 0, 0) ]
        ELSE [ status |-> "ok", symbol |-> acc.symbol, entry_rules |-> acc.entry_rules,
               stop_loss_pct |-> acc.stop_loss_pct, take_profit_pct |-> acc.take_profit_pct,
               ma_match |-> VbtMaMatch(acc.entry_rules),
               rsi_match |-> IF VbtMaMatch(acc.entry_rules).some THEN None
                             ELSE VbtRsiMatch(acc.entry_rules),
               signal |-> VbtSignal(acc.entry_rules) ]

----------------------------------------------------------------------------
(* StrategyCodeGenerator.generate_vectorbt_code *)

\* node.get('meta', {}) as the generator sees it: the top-level key
GenMetaKind(sch, node) == IF sch.shape \in {"top", "both"} THEN node.meta_kind ELSE "absent"
GenMeta(sch, node) == IF GenMetaKind(sch, node) = "mapping" THEN node.meta ELSE EmptyMeta

NodesOfType(sch, types) == { i \in 1..Len(sch.nodes) : sch.nodes[i].type \in types }

Ind(type, period) == [type |-> type, period |-> period]

\* _parse_indicators_from_rules for one rule: at most one MA (the first
\* match), then RSI, MACD, Bollinger, in this order
RuleIndicators(r) ==
    LET ma == SearchMovingAverage(r)
        rp == SearchRsiPeriod(r)
    IN  (IF ma.some THEN <<Ind("MA", ma.a)>> ELSE <<>>)
        \o (IF HasWord(r, "rsi") THEN <<Ind("RSI", IF rp.some THEN rp.a ELSE 14)>> ELSE <<>>)
        \o (IF HasWord(r, "macd") THEN <<Ind("MACD", 0)>> ELSE <<>>)
        \o (IF HasWord(r, "bollinger") THEN <<Ind("BBANDS", 20)>> ELSE <<>>)

RECURSIVE ParseIndicatorsFromRules(_)
ParseIndicatorsFromRules(rules) ==
    IF rules = <<>> THEN <<>>
    ELSE RuleIndicators(Head(rules)) \o ParseIndicatorsFromRules(Tail(rules))

OfType(inds, t) == SelectSeq(inds, LAMBDA x : x.type = t)

PeriodsOf(inds) == { inds[i].period : i \in 1..Len(inds) }

\* Variant of _generate_signals without the branch for an empty indicator
\* list: the empty list falls through to the price-move fallback.
GenerateSignalsNoDefault(inds) ==
    LET mas == OfType(inds, "MA")
        rsis == OfType(inds, "RSI")
    IN  IF mas # <<>>
        THEN IF Len(mas) >= 2
             THEN Signal("MA", MinOf(PeriodsOf(mas)), MaxOf(PeriodsOf(mas)), 0)
             ELSE Signal("unassigned", 0, 0, 0)
        ELSE IF rsis # <<>>
        THEN Signal("RSI", rsis[Len(rsis)].period, 30, 70)
        ELSE Signal("PRICE", 5, 5, 0)

\* _generate_signals: the rule behind the generated entries / exits.
\* "unassigned": the generated code assigns neither entries nor exits.
\* The rsi variable is the one the last RSI indicator defined.
GenerateSignals(inds) ==
    LET mas == OfType(inds, "MA")
        rsis == OfType(inds, "RSI")
    IN  IF inds = <<>> THEN Signal("MA", 10, 30, 0)
        ELSE IF mas # <<>>
        THEN IF Len(mas) >= 2
             THEN Signal("MA", MinOf(PeriodsOf(mas)), MaxOf(PeriodsOf(mas)), 0)
             ELSE Signal("unassigned", 0, 0, 0)
        ELSE IF rsis # <<>>
        THEN Signal("RSI", rsis[Len(rsis)].period, 30, 70)
        ELSE Signal("PRICE", 5, 5, 0)

\* A variable of the generated code: fast_ma, slow_ma, ma_<period>, rsi,
\* macd, bbands
Var(name, period) == [name |-> name, period |-> period]

\* _generate_indicators: the variables the indicator section defines
GenerateIndicators(inds) ==
    IF inds = <<>> THEN { Var("fast_ma", 0), Var("slow_ma", 0) }
    ELSE { Var("ma", inds[i].period) : i \in { j \in 1..Len(inds) : inds[j].type = "MA" } }
         \cup { Var("rsi", 0) : i \in { j \in 1..Len(inds) : inds[j].type = "RSI" } }
         \cup { Var("macd", 0) : i \in { j \in 1..Len(inds) : inds[j].type = "MACD" } }
         \cup { Var("bbands", 0) : i \in { j \in 1..Len(inds) : inds[j].type = "BBANDS" } }

\* _generate_signals: the indicator variables the signal section reads
SignalVars(inds) ==
    LET mas == OfType(inds, "MA")
        rsis == OfType(inds, "RSI")
    IN  IF inds = <<>> THEN { Var("fast_ma", 0), Var("slow_ma", 0) }
        ELSE IF mas # <<>>
        THEN IF Len(mas) >= 2
             THEN { Var("ma", MinOf(PeriodsOf(mas))), Var("ma", MaxOf(PeriodsOf(mas))) }
             ELSE {}
        ELSE IF rsis # <<>> THEN { Var("rsi", 0) }
        ELSE {}

GenParse(sch) ==
    LET cats    == NodesOfType(sch, {"category", "crypto_category"})
        entries == NodesOfType(sch, {"entry_condition", "entry"})
        exits   == NodesOfType(sch, {"take_profit", "exit_target"})
        stops   == NodesOfType(sch, {"stop_loss"})
        \* _extract_category: the first category node
        cat_raises == cats # {} /\ GenMetaKind(sch, sch.nodes[MinOf(cats)]) = "other"
        category == IF cats = {} THEN "Bitcoin"
                    ELSE LET c == GenMeta(sch, sch.nodes[MinOf(cats)]).category
                         IN  IF c = "absent" THEN "Bitcoin" ELSE c
        \* _extract_entry_logic: the first entry node; a rules value that is
        \* null cannot be iterated, a string is iterated letter by letter
        em == IF entries = {} THEN EmptyMeta ELSE GenMeta(sch, sch.nodes[MinOf(entries)])
        entry_raises == /\ entries # {}
                        /\ \/ GenMetaKind(sch, sch.nodes[MinOf(entries)]) = "other"
                           \/ em.rules_kind = "null"
        rules == IF em.rules_kind = "list" THEN em.rules ELSE <<>>
        indicators == ParseIndicatorsFromRules(rules)
        \* _extract_exit_logic / _extract_risk_management: every node of the
        \* type is read, the last one stays
        exit_raises == \E i \in exits : GenMetaKind(sch, sch.nodes[i]) = "other"
        stop_raises == \E i \in stops : GenMetaKind(sch, sch.nodes[i]) = "other"
        xm == IF exits = {} THEN EmptyMeta ELSE GenMeta(sch, sch.nodes[MaxOf(exits)])
        sm == IF stops = {} THEN EmptyMeta ELSE GenMeta(sch, sch.nodes[MaxOf(stops)])
        \* _generate_portfolio: risk_mgmt.get('stop_loss_pct', 5.0) / 100 and
        \* exit_logic.get('take_profit_pct', 7.0) / 100
        tp == IF exits = {} THEN Pct(TRUE, 7)
              ELSE IF xm.target_kind = "absent" THEN Pct(TRUE, 5)
              ELSE Pct(TRUE, xm.target_pct)
        sl == IF stops = {} \/ sm.stop_kind = "absent" THEN Pct(TRUE, 5)
              ELSE Pct(TRUE, sm.stop_pct)
        div_raises == \/ exits # {} /\ xm.target_kind \in {"numstr", "text", "null"}
                      \/ stops # {} /\ sm.stop_kind \in {"numstr", "text", "null"}
    IN  IF cat_raises \/ entry_raises \/ exit_raises \/ stop_raises \/ div_raises
        THEN [ status |-> "raised", category |-> "", rules |-> <<>>, indicators |-> <<>>,
               signal |-> Signal("none", 0, 0, 0),
               stop_loss_pct |-> Pct(FALSE, 0), take_profit_pct |-> Pct(FALSE, 0) ]
        ELSE [ status |-> "ok", category |-> category, rules |-> rules,
               indicators |-> indicators, signal |-> GenerateSignals(indicators),
               stop_loss_pct |-> sl, take_profit_pct |-> tp ]

----------------------------------------------------------------------------
(* The parsers as operations on a submitted schema *)

NotParsed == [status |-> "none"]

ParseIdle ==
    /\ schema = Schema(<<>>, "both")
    /\ vbt_parse = NotParsed
    /\ gen_parse = NotParsed

\* VectorBTBacktestService.run_schema_backtest(strategy_id, schema, params)
RunSchemaParse ==
    /\ vbt_parse = NotParsed
    /\ vbt_parse' = VbtParse(schema)
    /\ UNCHANGED <<schema, gen_parse, batchVars, btVars, extVars>>

\* StrategyCodeGenerator.generate_vectorbt_code(strategy_schema, params)
GenerateVectorbtCode ==
    /\ gen_parse = NotParsed
    /\ gen_parse' = GenParse(schema)
    /\ UNCHANGED <<schema, vbt_parse, batchVars, btVars, extVars>>

NextParse ==
    \/ RunSchemaParse
    \/ GenerateVectorbtCode

\* A schema whose entry rules range over the rule texts: no entry node, or
\* one entry node with a list of rule strings.
IsRuleSchema(sch) ==
    \/ sch = Schema(<<>>, "both")
    \/ \E k \in 0..MaxPhrases : \E ps \in [1..k -> Phrases] :
         \E cuts \in SUBSET (1..(k - 1)) :
            /\ Cardinality(cuts) <= MaxRules - 1
            /\ sch = Schema(<<Node("entry_condition", "mapping",
                                   Meta("absent", "list", CutAt(ps, cuts, 1),
                                        "absent", 0, "absent", 0))>>, "both")

\* A schema of up to MaxNodes nodes with well-formed and malformed meta
IsNodeSchema(sch) ==
    \E k \in 0..MaxNodes : \E ns \in [1..k -> NodeVariants] : \E sh \in Shapes :
        sch = Schema(ns, sh)

\* research_service._build_strategy_schema_ma(5, 20): StrategyNode objects,
\* every meta under data['meta']
ResearchSchemaMa ==
    Schema(<< Node("start", "absent", EmptyMeta),
              Node("category", "mapping", Meta("Bitcoin", "absent", <<>>, "absent", 0, "absent", 0)),
              Node("entry_condition", "mapping", Meta("absent", "list", SampleRules, "absent", 0, "absent", 0)),
              Node("take_profit", "mapping", Meta("absent", "absent", <<>>, "absent", 0, "num", 7)),
              Node("stop_loss", "mapping", Meta("absent", "absent", <<>>, "num", 5, "absent", 0)),
              Node("end", "absent", EmptyMeta) >>, "data")

\* The rules of the test strategy:
\* "Enter when 10-day moving average crosses above 30-day moving average",
\* "Price must be above 20-day moving average"
TestRules ==
    << <<Tok("num", 10), Tok("day", 0), Tok("movavg", 0), Tok("crosses", 0), Tok("above", 0),
         Tok("num", 30), Tok("day", 0), Tok("movavg", 0)>>,
       <<Tok("above", 0), Tok("num", 20), Tok("day", 0), Tok("movavg", 0)>> >>

\* test_strategy_execution.create_test_strategy: JSON nodes, every meta at
\* the top level of the node, data holding a label only
TestStrategySchema ==
    Schema(<< Node("crypto_category", "mapping", Meta("Bitcoin", "absent", <<>>, "absent", 0, "absent", 0)),
              Node("entry_condition", "mapping", Meta("absent", "list", TestRules, "absent", 0, "absent", 0)),
              Node("take_profit", "mapping", Meta("absent", "absent", <<>>, "absent", 0, "num", 7)),
              Node("stop_loss", "mapping", Meta("absent", "absent", <<>>, "num", 5, "absent", 0)) >>, "top")

ReferenceSchemas == { ResearchSchemaMa, TestStrategySchema }

----------------------------------------------------------------------------
(* VectorBTBacktestService._extract_trades *)

\* trades_df.tail(10) and trades[:10]
TailLimit == 10
ReturnLimit == 10

\* Exit Timestamp of a row that has none
NaT == -1

\* One row of records_readable: its index label, the day of its Entry
\* Timestamp, the day of its Exit Timestamp (or NaT) and whether the trade
\* is still open at the end of the series
TradeRow(idx, entry, exit, open) == [idx |-> idx, entry |-> entry, exit |-> exit, open |-> open]

RECURSIVE SumTo(_, _)
SumTo(f, i) == IF i = 0 THEN 0 ELSE f[i] + SumTo(f, i - 1)

\* The tables the portfolio can hand over: trades follow one another, each
\* held for one bar, with gap[i] bars between the previous exit and the
\* entry of trade i; only the last trade can be open, and the library then
\* reports its Exit Timestamp as NaT or as the last bar of the series.
IsTradeRecords(rows) ==
    \E n \in 0..MaxTrades : \E gap \in [1..n -> 0..1] :
        \E last \in {"closed", "open_nat", "open_last"} :
            /\ n = 0 => last = "closed"
            /\ rows = [ i \in 1..n |->
                          LET entry == (i - 1) + SumTo(gap, i)
                          IN  IF i = n /\ last = "open_nat" THEN TradeRow(i - 1, entry, NaT, TRUE)
                              ELSE TradeRow(i - 1, entry, entry + 1, i = n /\ last = "open_last") ]

\* A Trade of the returned list: id "trade-{idx}-entry" / "trade-{idx}-exit",
\* its type and the day of its date
TradeRecord(idx, type, date) == [idx |-> idx, type |-> type, date |-> date]

\* lines 393-421: a BUY for every row, a SELL when the row has an
\* Exit Timestamp
RowTrades(row) ==
    <<TradeRecord(row.idx, "BUY", row.entry)>>
    \o (IF row.exit # NaT THEN <<TradeRecord(row.idx, "SELL", row.exit)>> ELSE <<>>)

RECURSIVE AllRowTrades(_)
AllRowTrades(rows) ==
    IF rows = <<>> THEN <<>> ELSE RowTrades(Head(rows)) \o AllRowTrades(Tail(rows))

\* Variant of the row selection that keeps the first n rows (head(10)).
FirstRows(s, n) == IF Len(s) <= n THEN s ELSE SubSeq(s, 1, n)

\* Last n elements / first n elements of a sequence
TailOf(s, n) == IF Len(s) <= n THEN s ELSE SubSeq(s, Len(s) - n + 1, Len(s))
HeadOf(s, n) == IF Len(s) <= n THEN s ELSE SubSeq(s, 1, n)

\* trades.sort(key=lambda x: x.date, reverse=True): descending by date,
\* records of one date stay in the order they were appended
RECURSIVE InsertByDateDesc(_, _)
InsertByDateDesc(s, x) ==
    IF s = <<>> THEN <<x>>
    ELSE IF Head(s).date >= x.date THEN <<Head(s)>> \o InsertByDateDesc(Tail(s), x)
    ELSE <<x>> \o s

RECURSIVE SortByDateDesc(_)
SortByDateDesc(s) ==
    IF s = <<>> THEN <<>>
    ELSE InsertByDateDesc(SortByDateDesc(SubSeq(s, 1, Len(s) - 1)), s[Len(s)])

ExtractTradesOf(rows) ==
    IF rows = <<>> THEN <<>>
    ELSE HeadOf(SortByDateDesc(AllRowTrades(TailOf(rows, TailLimit))), ReturnLimit)

TradesIdle ==
    /\ tr_pc = "idle"
    /\ trade_records = <<>>
    /\ trades = <<>>

\* One call of _calculate_performance_ranking on its own
NoStrategy == [id |-> 0, expected_return |-> 0, risk_level |-> "medium", confidence10 |-> 0]
NoMetrics == [ total_return |-> 0, sharpe10 |-> 0, max_drawdown |-> 0, win_rate |-> 0,
               trades |-> 0, vs_benchmark |-> 0, mock |-> FALSE ]

ScoreIdle ==
    /\ sc_pc = "idle"
    /\ score_strategy = NoStrategy
    /\ score_metrics = NoMetrics
    /\ score_ranking = [rank |-> 0]

\* The BacktestMetrics a caller can pass: the fields are unconstrained
\* floats and ints (models.py:58-69).  total_return, max_drawdown,
\* win_rate, vs_benchmark in percent, sharpe10 in tenths.
ScoreMetrics ==
    [ total_return : {-50, 0, 20, 300}, sharpe10 : {-10, 0, 15, 30},
      max_drawdown : {-150, -20, 0, 150}, win_rate : {-10, 0, 60, 120},
      trades : {0, 50, 200}, vs_benchmark : {-150, 5}, mock : {FALSE} ]

\* The strategies a caller can pass: confidence_score in tenths
ScoreStrategies ==
    [ id : {1}, expected_return : {10}, risk_level : {"medium"}, confidence10 : {0, 5, 10} ]

\* _calculate_performance_ranking(strategy, metrics, initial_rank)
CalculateRanking ==
    /\ sc_pc = "idle"
    /\ sc_pc' = "done"
    /\ score_ranking' = CalculatePerformanceRanking(score_strategy, score_metrics, 1)
    /\ UNCHANGED <<score_strategy, score_metrics, tradeVars, execVars, batchVars, btVars, parseVars, researchVars, toolVars>>

NextScore == CalculateRanking

\* _extract_trades(pf)
ExtractTrades ==
    /\ tr_pc = "idle"
    /\ tr_pc' = "done"
    /\ trades' = ExtractTradesOf(trade_records)
    /\ UNCHANGED <<trade_records, scoreVars, execVars, batchVars, btVars, parseVars, researchVars, toolVars>>

NextTrades == ExtractTrades

----------------------------------------------------------------------------
(* StrategyExecutionService: execute_strategy, _execute_workflow and       *)
(* get_execution.  One step per await of the workflow coroutine.           *)

ExecIds == 1..MaxExecutions

\* error_message is "null" or "text"; backtest_run_id is 0 for NULL
Execution(status, pc, cause) ==
    [ status |-> status, pc |-> pc, cause |-> cause,
      error_message |-> "null", backtest_run_id |-> 0 ]

\* A row of backtest_runs.  The id the INSERT returns is named after the
\* execution whose workflow inserted the row; metrics is "parsed" when the
\* stored metrics were read from the crew's result and "zeros" when every
\* one of them is the default of get_metric.
BacktestRun(id, metrics) == [id |-> id, metrics |-> metrics]

NoExecution == Execution("none", "none", "none")

NotPolled == [id |-> 0, status |-> "none"]

ExecIdle ==
    /\ executions = [e \in ExecIds |-> NoExecution]
    /\ polled = NotPolled
    /\ status_writes = "accepted"
    /\ backtest_runs = {}

\* What strategy_execution_crew.execute_strategy hands back: it raises, or
\* returns a string that is not JSON, a JSON value that is not an object, an
\* object whose status is not a string, a success object with metrics in one
\* of the accepted formats, a success object without metrics (the crew wraps
\* a final output that is not JSON as {'status': 'completed', 'result':
\* output}, strategy_agents.py:472-476), or an object with another status (an
\* error result) whose 'error' is a text or null
CrewResults ==
    { "raises", "unparseable", "not_mapping", "status_not_str",
      "success", "success_no_metrics", "error", "error_null" }

\* The call _update_execution_status(id, status) without keyword arguments
NoKwargs == [f \in {} |-> "null"]

\* execute_strategy (lines 21-68): INSERT the row with status 'queued',
\* create the workflow task, return the execution.  A failed INSERT raises
\* and the router answers 500; no execution exists then.
ExecuteStrategy(e) ==
    /\ executions[e].pc = "none"
    /\ \E inserted \in BOOLEAN :
         executions' = [executions EXCEPT ![e] =
             IF inserted THEN Execution("queued", "created", "none")
             ELSE Execution("none", "rejected", "insert_failed")]
    /\ UNCHANGED <<backtest_runs, polled, status_writes, tradeVars, scoreVars, batchVars, btVars, parseVars, researchVars, toolVars>>

\* _update_execution_status(execution_id, status, ...) inside the try block:
\* the UPDATE is executed, or it raises and control goes to the handler
\* The keyword arguments are columns set by the same UPDATE.
WriteStatus(e, status, next_pc, kwargs) ==
    LET row == executions[e]
        updated == [f \in DOMAIN row |-> IF f \in DOMAIN kwargs THEN kwargs[f] ELSE row[f]]
    IN  executions' = [executions EXCEPT ![e] =
            IF status_writes = "accepted"
            THEN [updated EXCEPT !.status = status, !.pc = next_pc]
            ELSE [row EXCEPT !.pc = "handling", !.cause = "write_refused"]]

\* lines 84-89: status 'analyzing'
MarkAnalyzing(e) ==
    /\ executions[e].pc = "created"
    /\ WriteStatus(e, "analyzing", "analyzing", NoKwargs)
    /\ UNCHANGED <<backtest_runs, polled, status_writes, tradeVars, scoreVars, batchVars, btVars, parseVars, researchVars, toolVars>>

\* lines 91-99: SELECT the strategy; no row raises ValueError
FetchStrategy(e) ==
    /\ executions[e].pc = "analyzing"
    /\ \E row \in {"present", "missing", "select_raised"} :
         executions' = [executions EXCEPT ![e] =
             IF row = "present" THEN [@ EXCEPT !.pc = "crew"]
             ELSE [@ EXCEPT !.pc = "handling", !.cause = row]]
    /\ UNCHANGED <<backtest_runs, polled, status_writes, tradeVars, scoreVars, batchVars, btVars, parseVars, researchVars, toolVars>>

\* lines 101-139: run the crew in the executor, json.loads a string result,
\* read execution_status and compare its lower() with 'success'/'completed'
RunCrew(e) ==
    /\ executions[e].pc = "crew"
    /\ \E result \in CrewResults :
         executions' = [executions EXCEPT ![e] =
             IF result \in {"success", "success_no_metrics"}
             THEN [@ EXCEPT !.pc = "storing", !.cause = result]
             ELSE IF result \in {"error", "error_null"}
             THEN [@ EXCEPT !.pc = "failing", !.cause = result]
             ELSE [@ EXCEPT !.pc = "handling", !.cause = result]]
    /\ UNCHANGED <<backtest_runs, polled, status_writes, tradeVars, scoreVars, batchVars, btVars, parseVars, researchVars, toolVars>>

\* Variant of _create_backtest_run that builds the BacktestRun object
\* without inserting the row.
CreateBacktestRunUnstored(e) ==
    /\ executions[e].pc = "storing"
    /\ \E stored \in BOOLEAN :
         executions' = [executions EXCEPT ![e] =
             IF stored THEN [@ EXCEPT !.pc = "completing"]
             ELSE [@ EXCEPT !.pc = "handling", !.cause = "run_not_stored"]]
    /\ UNCHANGED <<backtest_runs, polled, status_writes, tradeVars, scoreVars, batchVars, btVars, parseVars, researchVars, toolVars>>

\* lines 140-220: format the metrics (get_metric gives 0 for every metric
\* that is missing) and INSERT the backtest run (_create_backtest_run, lines
\* 295-352); metrics that are not numbers or a failed INSERT raise
CreateBacktestRun(e) ==
    /\ executions[e].pc = "storing"
    /\ \E stored \in BOOLEAN :
         /\ executions' = [executions EXCEPT ![e] =
                IF stored THEN [@ EXCEPT !.pc = "completing"]
                ELSE [@ EXCEPT !.pc = "handling", !.cause = "run_not_stored"]]
         /\ backtest_runs' =
                IF stored
                THEN backtest_runs \cup
                       { BacktestRun(e, IF executions[e].cause = "success" THEN "parsed" ELSE "zeros") }
                ELSE backtest_runs
    /\ UNCHANGED <<polled, status_writes, tradeVars, scoreVars, batchVars, btVars, parseVars, researchVars, toolVars>>

\* lines 222-229: status 'completed' with backtest_run_id=backtest_run.id
MarkCompleted(e) ==
    /\ executions[e].pc = "completing"
    /\ WriteStatus(e, "completed", "done", [backtest_run_id |-> e])
    /\ UNCHANGED <<backtest_runs, polled, status_writes, tradeVars, scoreVars, batchVars, btVars, parseVars, researchVars, toolVars>>

\* lines 231-245: the else branch, status 'failed' with error_message =
\* result.get('error', result.get('error_message', 'Unknown error')): the
\* default stands in for a missing key only, a null 'error' stays null
MarkFailed(e) ==
    /\ executions[e].pc = "failing"
    /\ WriteStatus(e, "failed", "done",
                   [error_message |-> IF executions[e].cause = "error_null" THEN "null" ELSE "text"])
    /\ UNCHANGED <<backtest_runs, polled, status_writes, tradeVars, scoreVars, batchVars, btVars, parseVars, researchVars, toolVars>>

\* Variant of the handler that only logs the error.
HandleExceptionSilently(e) ==
    /\ executions[e].pc = "handling"
    /\ executions' = [executions EXCEPT ![e].pc = "done"]
    /\ UNCHANGED <<backtest_runs, polled, status_writes, tradeVars, scoreVars, batchVars, btVars, parseVars, researchVars, toolVars>>

\* lines 247-257: except Exception: status 'failed' with
\* error_message=str(e).  When this UPDATE
\* raises too, the task ends with the exception and nothing is written.
HandleException(e) ==
    /\ executions[e].pc = "handling"
    /\ executions' = [executions EXCEPT ![e] =
           IF status_writes = "accepted"
           THEN [@ EXCEPT !.status = "failed", !.pc = "done", !.error_message = "text"]
           ELSE [@ EXCEPT !.pc = "crashed"]]
    /\ UNCHANGED <<backtest_runs, polled, status_writes, tradeVars, scoreVars, batchVars, btVars, parseVars, researchVars, toolVars>>

\* get_execution(execution_id): the poller reads the persisted status
GetExecution(e) ==
    /\ executions[e].status # "none"
    /\ polled # [id |-> e, status |-> executions[e].status]
    /\ polled' = [id |-> e, status |-> executions[e].status]
    /\ UNCHANGED <<executions, status_writes, backtest_runs, tradeVars, scoreVars, batchVars, btVars, parseVars, researchVars, toolVars>>

\* The steps of the background task of execution e
WorkflowStep(e) ==
    \/ MarkAnalyzing(e)
    \/ FetchStrategy(e)
    \/ RunCrew(e)
    \/ CreateBacktestRun(e)
    \/ MarkCompleted(e)
    \/ MarkFailed(e)
    \/ HandleException(e)

NextExec ==
    \/ \E e \in ExecIds : ExecuteStrategy(e)
    \/ \E e \in ExecIds : WorkflowStep(e)
    \/ \E e \in ExecIds : GetExecution(e)

----------------------------------------------------------------------------
(* StrategyResearchService.research: the candidate score and the ranking *)

\* The metrics of a candidate's backtest: total_return and max_drawdown in
\* percent (max_drawdown = pf.max_drawdown() * 100 is zero or negative),
\* the Sharpe ratio in tenths
CandidateMetrics ==
    [ total_return : {0, 10}, max_drawdown : {-30, -10, 0}, sharpe10 : {5, 10} ]

\* run_schema_backtest for one candidate returns a BacktestRun or raises
CandidateBacktests ==
    { [ok |-> FALSE, metrics |-> [total_return |-> 0, max_drawdown |-> 0, sharpe10 |-> 0]] }
    \cup { [ok |-> TRUE, metrics |-> m] : m \in CandidateMetrics }

\* line 198: score = total_return - 0.5 * max_drawdown + 10.0 * sharpe_ratio,
\* here twice the score, so that it is an integer
Score2(m) == 2 * m.total_return - m.max_drawdown + 2 * m.sharpe10

\* lines 200-208: the ResearchCandidateSummary of candidate i
CandidateSummary(i, m) == [strategy_name |-> i, metrics |-> m, score2 |-> Score2(m)]

\* lines 139-208: the loop over the candidates from candidate i on; a
\* candidate whose backtest raised is skipped
RECURSIVE CollectCandidates(_, _)
CollectCandidates(bts, i) ==
    IF i > Len(bts) THEN <<>>
    ELSE (IF bts[i].ok THEN <<CandidateSummary(i, bts[i].metrics)>> ELSE <<>>)
         \o CollectCandidates(bts, i + 1)

\* results.sort(key=lambda r: r.score, reverse=True): descending by score,
\* candidates of one score stay in the order of generation
RECURSIVE InsertByCandidateScore(_, _)
InsertByCandidateScore(sorted, r) ==
    IF sorted = <<>> THEN <<r>>
    ELSE IF Head(sorted).score2 >= r.score2
         THEN <<Head(sorted)>> \o InsertByCandidateScore(Tail(sorted), r)
         ELSE <<r>> \o sorted

RECURSIVE SortByCandidateScore(_)
SortByCandidateScore(s) ==
    IF s = <<>> THEN <<>>
    ELSE InsertByCandidateScore(SortByCandidateScore(SubSeq(s, 1, Len(s) - 1)), s[Len(s)])

ResearchIdle ==
    /\ rs_pc = "idle"
    /\ rs_request = [top_n |-> 0]
    /\ rs_backtests = <<>>
    /\ all_candidates = <<>>
    /\ top_candidates = <<>>

\* research(req), lines 102-214
Research ==
    /\ rs_pc = "idle"
    /\ LET results == SortByCandidateScore(CollectCandidates(rs_backtests, 1))
       IN  /\ all_candidates' = results
           /\ top_candidates' = Prefix(results, rs_request.top_n)
    /\ rs_pc' = "done"
    /\ UNCHANGED <<rs_request, rs_backtests, tradeVars, scoreVars, execVars, batchVars, btVars, parseVars, toolVars>>

NextResearch == Research

----------------------------------------------------------------------------
(* execution_tools.execute_python_code_tool *)

\* stdout of the subprocess as a sequence of pieces: the start marker, the
\* end marker, a JSON document, other text
OutPieces == {"start", "end", "json", "text"}

\* What happens to a call.  write: NamedTemporaryFile cannot be created
\* ("create_failed"), the file is created and f.write(code) raises
\* ("write_failed": code that cannot be encoded, no space left), or the code
\* is written ("ok").  proc: subprocess.run raises OSError, raises
\* TimeoutExpired, or returns with a non-zero or zero exit status.
ToolCall(write, proc, stdout) == [write |-> write, proc |-> proc, stdout |-> stdout]

IsToolCall(c) ==
    \/ \E w \in {"create_failed", "write_failed"} : c = ToolCall(w, "not_run", <<>>)
    \/ \E pr \in {"start_failed", "timeout", "exit_nonzero"} : c = ToolCall("ok", pr, <<>>)
    \/ \E k \in 0..MaxOut : \E out \in [1..k -> OutPieces] : c = ToolCall("ok", "exit_zero", out)

ToolResult(status, metrics, error) == [status |-> status, metrics |-> metrics, error |-> error]

NoToolResult == ToolResult("none", "none", "none")

FirstIndex(out, piece) == MinOf({ i \in 1..Len(out) : out[i] = piece })

\* lines 134-155: exit status 0.  stdout.index raises ValueError without an
\* end marker, json.loads raises unless the text between the markers is one
\* JSON document; both are caught by except Exception (line 168)
ParseStdout(out) ==
    IF ~ \E i \in 1..Len(out) : out[i] = "start"
    THEN ToolResult("error", "none", "No results found in output")
    ELSE IF ~ \E i \in 1..Len(out) : out[i] = "end"
    THEN ToolResult("error", "none", "exception")
    ELSE LET start == FirstIndex(out, "start")
             end   == FirstIndex(out, "end")
             results_json == SubSeq(out, start + 1, end - 1)
         IN  IF results_json = <<"json">>
             THEN ToolResult("success", "parsed", "none")
             ELSE ToolResult("error", "none", "exception")

\* The value of the return statement that is reached, lines 115-173
ToolReturn(c) ==
    IF c.write # "ok" THEN ToolResult("error", "none", "exception")
    ELSE IF c.proc = "start_failed" THEN ToolResult("error", "none", "exception")
    ELSE IF c.proc = "timeout" THEN ToolResult("error", "none", "timeout")
    ELSE IF c.proc = "exit_nonzero" THEN ToolResult("error", "none", "stderr")
    ELSE ParseStdout(c.stdout)

ToolIdle ==
    /\ tool_pc = "idle"
    /\ tool_call = ToolCall("ok", "exit_zero", <<>>)
    /\ tool_result = NoToolResult
    /\ temp_file = "none"

\* execute_python_code_tool(code, timeout).  The finally clause (lines
\* 174-179) unlinks Path(code_file); code_file is assigned after f.write
\* (line 123), so when the write raised the name is unbound, the NameError
\* is swallowed by the bare except and the file stays.
ExecutePythonCodeTool ==
    /\ tool_pc = "idle"
    /\ LET created == tool_call.write # "create_failed"
           bound   == tool_call.write = "ok"
       IN  temp_file' = IF ~created THEN "none"
                        ELSE IF bound THEN "removed"
                        ELSE "exists"
    /\ tool_result' = ToolReturn(tool_call)
    /\ tool_pc' = "done"
    /\ UNCHANGED <<tool_call, tradeVars, scoreVars, execVars, batchVars, btVars, parseVars, researchVars>>

NextTool == ExecutePythonCodeTool

----------------------------------------------------------------------------
(* Specifications *)

\* Nothing but the operation under study is in progress
ExtIdle == TradesIdle /\ ScoreIdle /\ ExecIdle /\ ResearchIdle /\ ToolIdle

NoParams == [start_date |-> 0, end_date |-> 0, initial_capital |-> 0]

InitBatch == BatchIdle /\ BacktestIdle /\ bt_params = NoParams /\ ParseIdle /\ ExtIdle

SpecBatch == InitBatch /\ [][NextBatch]_vars

InitBacktest ==
    /\ BatchIdle
    /\ BacktestIdle
    /\ bt_params \in [ start_date : 0..MaxStartTick, end_date : EndTicks,
                        initial_capital : Capitals ]
    /\ ParseIdle
    /\ ExtIdle

SpecBacktest == InitBacktest /\ [][NextBacktest]_vars

InitRules ==
    /\ BatchIdle /\ BacktestIdle /\ bt_params = NoParams
    /\ IsRuleSchema(schema)
    /\ vbt_parse = NotParsed
    /\ gen_parse = NotParsed
    /\ ExtIdle

SpecRules == InitRules /\ [][NextParse]_vars

InitSchema ==
    /\ BatchIdle /\ BacktestIdle /\ bt_params = NoParams
    /\ (IsNodeSchema(schema) \/ schema \in ReferenceSchemas)
    /\ vbt_parse = NotParsed
    /\ gen_parse = NotParsed
    /\ ExtIdle

SpecSchema == InitSchema /\ [][NextParse]_vars

InitTrades ==
    /\ BatchIdle /\ BacktestIdle /\ bt_params = NoParams /\ ParseIdle
    /\ tr_pc = "idle"
    /\ IsTradeRecords(trade_records)
    /\ trades = <<>>
    /\ ScoreIdle
    /\ ExecIdle
    /\ ResearchIdle /\ ToolIdle

SpecTrades == InitTrades /\ [][NextTrades]_vars

InitScore ==
    /\ BatchIdle /\ BacktestIdle /\ bt_params = NoParams /\ ParseIdle /\ TradesIdle
    /\ sc_pc = "idle"
    /\ score_strategy \in ScoreStrategies
    /\ score_metrics \in ScoreMetrics
    /\ score_ranking = [rank |-> 0]
    /\ ExecIdle
    /\ ResearchIdle /\ ToolIdle

SpecScore == InitScore /\ [][NextScore]_vars

InitExec ==
    /\ BatchIdle /\ BacktestIdle /\ bt_params = NoParams /\ ParseIdle
    /\ TradesIdle /\ ScoreIdle
    /\ executions = [e \in ExecIds |-> NoExecution]
    /\ polled = NotPolled
    /\ status_writes \in {"accepted", "refused"}
    /\ backtest_runs = {}
    /\ ResearchIdle /\ ToolIdle

SpecExec == InitExec /\ [][NextExec]_vars

\* The event loop runs every task that is ready, and the calls a task
\* awaits (the store, the crew in the executor) return or raise.
SpecExecLive == InitExec /\ [][NextExec]_vars /\ \A e \in ExecIds : WF_vars(WorkflowStep(e))

InitResearch ==
    /\ BatchIdle /\ BacktestIdle /\ bt_params = NoParams /\ ParseIdle
    /\ TradesIdle /\ ScoreIdle /\ ExecIdle /\ ToolIdle
    /\ rs_pc = "idle"
    /\ \E n \in 1..MaxCandidates : rs_request = [top_n |-> n]
    /\ \E k \in 0..MaxCandidates : rs_backtests \in [1..k -> CandidateBacktests]
    /\ all_candidates = <<>>
    /\ top_candidates = <<>>

SpecResearch == InitResearch /\ [][NextResearch]_vars

InitTool ==
    /\ BatchIdle /\ BacktestIdle /\ bt_params = NoParams /\ ParseIdle
    /\ TradesIdle /\ ScoreIdle /\ ExecIdle /\ ResearchIdle
    /\ tool_pc = "idle"
    /\ IsToolCall(tool_call)
    /\ tool_result = NoToolResult
    /\ temp_file = "none"

SpecTool == InitTool /\ [][NextTool]_vars

----------------------------------------------------------------------------
(* Claims about run_autonomous_backtests *)

RankedIds == { rankings[k].strategy_id : k \in 1..Len(rankings) }

\* C2: when the backtest of a strategy fails (its execution raised), the
\* batch still returns and the failed strategy is absent from the returned
\* ranking, while every strategy whose backtest did not fail is ranked.
C2_FailedExcludedFromRanking ==
    bpc = "returned" =>
        \A i \in 1..Len(backtest_tasks) :
            IF backtest_tasks[i].exec = "raised"
            THEN strategies[i].id \notin RankedIds
            ELSE strategies[i].id \in RankedIds

\* C3: a ranking is computed, stored or returned only when every backtest
\* task created for the batch has finished.
C3_RankingOnlyAfterAllTasks ==
    (bpc = "returned" \/ rankings # <<>> \/ stored_rankings # <<>>)
        => \A i \in 1..Len(backtest_tasks) : backtest_tasks[i].st = "done"

C3_Witness ==
    /\ bpc = "returned"
    /\ Len(backtest_tasks) >= 2
    /\ Len(rankings) = Len(backtest_tasks)
    /\ stored_rankings = rankings

\* Order of the specification text: higher score first, then the smaller
\* drawdown magnitude, then the smaller strategy id.
RanksBefore(a, b) ==
    \/ a.performance_score > b.performance_score
    \/ /\ a.performance_score = b.performance_score
       /\ \/ Abs(a.metrics.max_drawdown) < Abs(b.metrics.max_drawdown)
          \/ /\ Abs(a.metrics.max_drawdown) = Abs(b.metrics.max_drawdown)
             /\ a.strategy_id < b.strategy_id

C5_RanksAreOneToN ==
    bpc = "returned" =>
        \A i \in 1..Len(rankings) : rankings[i].rank = i

C5_Witness ==
    /\ bpc = "returned"
    /\ Len(rankings) >= 2
    /\ \E i \in 1..Len(rankings) : rankings[i].src # i /\ rankings[i].rank = i

----------------------------------------------------------------------------
(* Claims about a single backtest call *)

\* C1: the equity_series of every successful backtest (mock service,
\* run_bitcoin_backtest, run_schema_backtest) is strictly ascending by date.
C1_EquityAscending ==
    (bt_pc = "done" /\ bt_outcome.kind = "ok") =>
        \A i \in 1..(Len(equity_series) - 1) :
            equity_series[i].date < equity_series[i + 1].date

C1_Witness ==
    /\ bt_pc = "done"
    /\ bt_outcome.kind = "ok"
    /\ bt_service = "bitcoin"
    /\ Len(equity_series) >= 3

\* C6: a call whose params have start_date >= end_date or
\* initial_capital <= 0 ends with a distinct input error; it returns no
\* result and lets no low-level exception through.
C6_InvalidParamsRejected ==
    (bt_pc = "done" /\ (bt_params.start_date >= bt_params.end_date
                        \/ bt_params.initial_capital <= 0))
        => bt_outcome.kind = "InputError"

----------------------------------------------------------------------------
(* Claims about the schema parsers *)

\* C7: parsing a schema never raises because of malformed node meta (a
\* missing key, a non-numeric stop_pct or target_pct, rules that is not a
\* list, a meta that is not a mapping); it completes, with defaults.
C7_ParseNeverRaises ==
    /\ vbt_parse.status # "raised"
    /\ gen_parse.status # "raised"

\* C8: when no indicator pattern is recognised (no entry node, empty rules
\* list, rule text matching no pattern), the signal rule is the 10/30
\* moving-average crossover, in run_schema_backtest and in the generator.
C8_DefaultCrossover ==
    /\ (vbt_parse.status = "ok" /\ ~vbt_parse.ma_match.some /\ ~vbt_parse.rsi_match.some)
          => vbt_parse.signal = Signal("MA", 10, 30, 0)
    /\ (gen_parse.status = "ok" /\ gen_parse.indicators = <<>>)
          => gen_parse.signal = Signal("MA", 10, 30, 0)

C8_Witness ==
    /\ vbt_parse.status = "ok" /\ gen_parse.status = "ok"
    /\ Len(schema.nodes) = 1
    /\ schema.nodes[1].meta.rules # <<>>
    /\ ~vbt_parse.ma_match.some /\ ~vbt_parse.rsi_match.some
    /\ gen_parse.indicators = <<>>
    /\ vbt_parse.signal = Signal("MA", 10, 30, 0)
    /\ gen_parse.signal = Signal("MA", 10, 30, 0)

\* The rule strings of the schema's entry node, as written
WrittenRules == IF schema.nodes = <<>> THEN <<>> ELSE schema.nodes[1].meta.rules

\* The periods of all "<n>-day MA" / "<n>-day moving average" mentions
NamedMaPeriods ==
    UNION { { WrittenRules[q][i].n :
                i \in { j \in 1..Len(WrittenRules[q]) :
                          /\ IsNumDay(WrittenRules[q], j)
                          /\ j + 2 <= Len(WrittenRules[q])
                          /\ WrittenRules[q][j + 2].k \in {"ma", "movavg"} } } :
            q \in 1..Len(WrittenRules) }

\* C9: when the entry rules name two or more moving-average periods, in
\* whatever order, the smaller is the fast MA and the larger the slow MA
\* (entry: fast crosses above slow, exit: fast crosses below slow).
C9_SmallerPeriodIsFast ==
    Cardinality(NamedMaPeriods) >= 2 =>
        /\ vbt_parse.status = "ok" =>
             vbt_parse.signal = Signal("MA", MinOf(NamedMaPeriods), MaxOf(NamedMaPeriods), 0)
        /\ gen_parse.status = "ok" =>
             gen_parse.signal = Signal("MA", MinOf(NamedMaPeriods), MaxOf(NamedMaPeriods), 0)

\* The threshold the rule text gives after the word w ("below 25") in a
\* rule that mentions RSI, else the default
WrittenLevel(w, default) ==
    LET hits == { <<q, i>> \in (1..Len(WrittenRules)) \X (1..8) :
                    /\ HasWord(WrittenRules[q], "rsi")
                    /\ IsWordNum(WrittenRules[q], i, w) }
    IN  IF hits = {} THEN default
        ELSE LET h == CHOOSE x \in hits : \A y \in hits :
                          x[1] < y[1] \/ (x[1] = y[1] /\ x[2] <= y[2])
             IN  WrittenRules[h[1]][h[2] + 1].n

\* C10: when the parsed indicators contain an RSI and fewer than two moving
\* averages, the signal rule is the RSI rule: entry when RSI crosses below
\* the oversold threshold, exit when it crosses above the overbought one;
\* the thresholds are 30 and 70 unless the rule text gives other values.
C10_RsiRule ==
    (/\ gen_parse.status = "ok"
     /\ OfType(gen_parse.indicators, "RSI") # <<>>
     /\ Len(OfType(gen_parse.indicators, "MA")) < 2)
    => /\ gen_parse.signal.kind = "RSI"
       /\ gen_parse.signal.y = WrittenLevel("below", 30)
       /\ gen_parse.signal.z = WrittenLevel("above", 70)
       /\ vbt_parse.status = "ok" =>
            /\ vbt_parse.signal.kind = "RSI"
            /\ vbt_parse.signal.y = WrittenLevel("below", 30)
            /\ vbt_parse.signal.z = WrittenLevel("above", 70)

----------------------------------------------------------------------------
(* Claims about stop-loss / take-profit and duplicate nodes *)

\* Some node of one of the types has a meta, as the parser named by
\* metaKind sees it, that holds the key
VbtGives(types, key) ==
    \E i \in NodesOfType(schema, types) :
        /\ VbtMetaKind(schema, schema.nodes[i]) = "mapping"
        /\ schema.nodes[i].meta[key] # "absent"

GenGives(types, key) ==
    \E i \in NodesOfType(schema, types) :
        /\ GenMetaKind(schema, schema.nodes[i]) = "mapping"
        /\ schema.nodes[i].meta[key] # "absent"

\* C11: with no stop_loss node, or none whose meta has stop_pct, the
\* simulation has no stop-loss trigger; with no take_profit node, or none
\* whose meta has target_pct, it has no take-profit trigger.  No default
\* percentage stands in for an absent value.
C11_AbsentMeansNoTrigger ==
    /\ vbt_parse.status = "ok" =>
         /\ ~VbtGives({"stop_loss"}, "stop_kind") => ~vbt_parse.stop_loss_pct.set
         /\ ~VbtGives({"take_profit", "exit_target"}, "target_kind") => ~vbt_parse.take_profit_pct.set
    /\ gen_parse.status = "ok" =>
         /\ ~GenGives({"stop_loss"}, "stop_kind") => ~gen_parse.stop_loss_pct.set
         /\ ~GenGives({"take_profit", "exit_target"}, "target_kind") => ~gen_parse.take_profit_pct.set

\* The consulted type a node belongs to ("" for a node no parser reads)
TypeGroup(type) ==
    IF type \in {"category", "crypto_category"} THEN "category"
    ELSE IF type \in {"entry_condition", "entry"} THEN "entry"
    ELSE IF type \in {"take_profit", "exit_target"} THEN "take_profit"
    ELSE IF type = "stop_loss" THEN "stop_loss"
    ELSE ""

\* The schema without the later duplicates: of each consulted type only the
\* first node in declaration order stays
FirstOfEachType(sch) ==
    LET keep == { i \in 1..Len(sch.nodes) :
                    \/ TypeGroup(sch.nodes[i].type) = ""
                    \/ \A j \in 1..(i - 1) :
                         TypeGroup(sch.nodes[j].type) # TypeGroup(sch.nodes[i].type) }
        order == SortedSeq(keep)
    IN  Schema([ k \in 1..Len(order) |-> sch.nodes[order[k]] ], sch.shape)

\* C12: of several nodes of one consulted type only the first in declaration
\* order contributes: the asset, the entry rules, the stop-loss and the
\* take-profit percentage are those of the schema without the duplicates.
C12_FirstNodeOnly ==
    /\ vbt_parse.status = "ok" =>
         LET first == VbtParse(FirstOfEachType(schema))
         IN  /\ vbt_parse.symbol = first.symbol
             /\ vbt_parse.entry_rules = first.entry_rules
             /\ vbt_parse.stop_loss_pct = first.stop_loss_pct
             /\ vbt_parse.take_profit_pct = first.take_profit_pct
    /\ gen_parse.status = "ok" =>
         LET first == GenParse(FirstOfEachType(schema))
         IN  /\ gen_parse.category = first.category
             /\ gen_parse.rules = first.rules
             /\ gen_parse.stop_loss_pct = first.stop_loss_pct
             /\ gen_parse.take_profit_pct = first.take_profit_pct

----------------------------------------------------------------------------
(* Claims about the trade list *)

\* The row of records_readable a returned Trade was made from
RowOf(t) == CHOOSE row \in { trade_records[i] : i \in 1..Len(trade_records) } : row.idx = t.idx

\* C13: the returned trade list holds entry/exit pairs: every BUY record has
\* the SELL record of the same trade (and every SELL its BUY), and a
\* position still open at the end of the series contributes no record.
C13_TradesPaired ==
    tr_pc = "done" =>
        /\ \A k \in 1..Len(trades) :
             \E m \in 1..Len(trades) :
                 trades[m].idx = trades[k].idx /\ trades[m].type # trades[k].type
        /\ \A k \in 1..Len(trades) : ~RowOf(trades[k]).open

----------------------------------------------------------------------------
(* Claims about the performance score *)

\* 0.4*risk_adjusted_return + 30*consistency_score + 20*market_adaptability
\* + 10*confidence of a returned ranking, in units of 1/10000
WeightedSum(r, strategy) ==
      400 * r.risk_adjusted_return10
    + 30 * r.consistency_score4
    + 20 * r.market_adaptability4
    + 10000 * strategy.confidence10

\* C15: performance_score = clamp(0.4*risk_adjusted_return
\* + 30*consistency_score + 20*market_adaptability + 10*confidence, 0, 100)
\* with risk_adjusted_return = sharpe_ratio*total_return; the score lies in
\* [0, 100].
C15_ScoreIsClampedSum ==
    sc_pc = "done" =>
        /\ score_ranking.risk_adjusted_return10 = score_metrics.sharpe10 * score_metrics.total_return
        /\ score_ranking.performance_score =
             (IF WeightedSum(score_ranking, score_strategy) < 0 THEN 0
              ELSE IF WeightedSum(score_ranking, score_strategy) > 1000000 THEN 1000000
              ELSE WeightedSum(score_ranking, score_strategy))
        /\ score_ranking.performance_score >= 0
        /\ score_ranking.performance_score <= 1000000

\* a call whose weighted sum is above 100 and whose score is 100
C15_Witness ==
    /\ sc_pc = "done"
    /\ WeightedSum(score_ranking, score_strategy) > 1000000
    /\ score_ranking.performance_score = 1000000

\* C16: the consistency_score of every ranking lies in [0, 1], also for a
\* max_drawdown of magnitude above 100 and a win_rate above 100 or below 0.
C16_ConsistencyInUnitRange ==
    sc_pc = "done" =>
        /\ score_ranking.consistency_score4 >= 0
        /\ score_ranking.consistency_score4 <= 10000

\* C17: the number of strategy backtests in flight at the same time never
\* exceeds request.max_concurrent_tests.
InFlight == Cardinality({ i \in 1..Len(backtest_tasks) : backtest_tasks[i].st = "running" })

C17_InFlightBounded == InFlight > 0 => InFlight <= max_concurrent

----------------------------------------------------------------------------
(* Claims about the generated signals and the indicator list *)

\* C18: the price-move rule (entry on a single-bar return below -5%, exit
\* above +5%) is generated only when no indicator was parsed from the entry
\* rules; with at least one parsed indicator (MA, RSI, MACD, Bollinger) the
\* generated signals are based on an indicator.
C18_PriceRuleOnlyWithoutIndicators ==
    gen_parse.status = "ok" =>
        /\ gen_parse.signal.kind = "PRICE" => gen_parse.indicators = <<>>
        /\ gen_parse.indicators # <<>> => gen_parse.signal.kind \in {"MA", "RSI", "MACD", "BBANDS"}

\* The indicator mentions of a rule string from word i on, in the order in
\* which they appear: "<n>-day moving average", "RSI", "MACD", "Bollinger"
RECURSIVE MentionsFrom(_, _)
MentionsFrom(r, i) ==
    IF i > Len(r) THEN <<>>
    ELSE (IF IsNumDay(r, i) /\ i + 2 <= Len(r) /\ r[i + 2].k = "movavg"
             THEN <<Ind("MA", r[i].n)>>
          ELSE IF r[i].k = "rsi" THEN <<Ind("RSI", 0)>>
          ELSE IF r[i].k = "macd" THEN <<Ind("MACD", 0)>>
          ELSE IF r[i].k = "bollinger" THEN <<Ind("BBANDS", 0)>>
          ELSE <<>>)
         \o MentionsFrom(r, i + 1)

RECURSIVE MentionsOf(_)
MentionsOf(rules) ==
    IF rules = <<>> THEN <<>> ELSE MentionsFrom(Head(rules), 1) \o MentionsOf(Tail(rules))

\* The type of each parsed indicator, with the period of a moving average
KindsOf(inds) ==
    [ i \in 1..Len(inds) |-> Ind(inds[i].type, IF inds[i].type = "MA" THEN inds[i].period ELSE 0) ]

\* C19: for a rule string that mentions several indicators, several moving
\* averages of different periods included, _parse_indicators_from_rules
\* returns one indicator per mention, in the order of the mentions.
C19_OneIndicatorPerMention ==
    gen_parse.status = "ok" => KindsOf(gen_parse.indicators) = MentionsOf(WrittenRules)

----------------------------------------------------------------------------
(* Claims about the CAGR *)

\* (end_date - start_date).days
ElapsedDays == (bt_params.end_date - bt_params.start_date) \div TicksPerDay

\* C20: the reported CAGR is 0 whenever the time from start_date to end_date
\* is zero or negative, computing it never divides by zero, and for a
\* positive elapsed time it is ((final_value/initial_capital)^(1/years) - 1)
\* * 100 with years the elapsed time in years (stated for a positive
\* initial capital and an elapsed time of at least one day).
C20_CagrGuardedAndAnnualised ==
    (bt_pc = "done" /\ bt_outcome.kind = "ok") =>
        /\ bt_params.end_date <= bt_params.start_date => cagr.kind = "zero"
        /\ (ElapsedDays >= 1 /\ bt_params.initial_capital > 0) =>
             /\ cagr.kind = "formula"
             /\ cagr.num * 1461 = 4 * ElapsedDays * cagr.den

----------------------------------------------------------------------------
(* Claims about strategy executions *)

\* C14: once execute_strategy has created an execution with status queued,
\* the background workflow eventually sets the persisted status to
\* completed or failed, whatever happens in between (strategy row missing,
\* the crew raising or returning an unparseable or error result), as long
\* as the store accepts the status writes; a poller cannot wait forever on
\* queued or analyzing.
C14_ExecutionTerminates ==
    status_writes = "accepted" =>
        \A e \in ExecIds :
            (executions[e].status \in {"queued", "analyzing"})
                ~> (executions[e].status \in {"completed", "failed"})

\* an execution that failed because the crew returned text that is not
\* JSON, seen as failed by the poller, next to one that completed
C14_Witness ==
    /\ status_writes = "accepted"
    /\ \E e \in ExecIds :
         /\ executions[e].cause = "unparseable"
         /\ executions[e].status = "failed"
         /\ polled = [id |-> e, status |-> "failed"]
    /\ \E e \in ExecIds : executions[e].status = "completed"

----------------------------------------------------------------------------
(* Claims about the reported trades and the source of the ranked metrics *)

\* Every record the run has: a BUY per row and a SELL per row with an exit
RunRecords == { AllRowTrades(trade_records)[k] : k \in 1..Len(AllRowTrades(trade_records)) }

ReturnedRecords == { trades[k] : k \in 1..Len(trades) }

C22_MockOnlyAfterFailure ==
    \A i \in 1..Len(backtest_tasks) :
        (backtest_tasks[i].st = "done" /\ backtest_tasks[i].result.metrics.mock)
            => backtest_tasks[i].exec = "raised"

\* The symbol run_schema_backtest trades for a category (vectorbt_service:
\* Ethereum and Layer1 are ETH-USD, everything else BTC-USD)
SymbolOf(category) == IF category \in {"Ethereum", "Layer1"} THEN "ETH-USD" ELSE "BTC-USD"

\* C23: for a schema as the research service or the test strategy builds it,
\* StrategyCodeGenerator and run_schema_backtest extract the same asset
\* category, the same entry rules, the same stop-loss percentage and the same
\* take-profit percentage.
C23_ParsersAgree ==
    (schema \in ReferenceSchemas /\ vbt_parse.status = "ok" /\ gen_parse.status = "ok")
        => /\ SymbolOf(gen_parse.category) = vbt_parse.symbol
           /\ gen_parse.rules = vbt_parse.entry_rules
           /\ gen_parse.stop_loss_pct = vbt_parse.stop_loss_pct
           /\ gen_parse.take_profit_pct = vbt_parse.take_profit_pct

\* C24: for every list of parsed indicators the generated code assigns both
\* entries and exits before the portfolio section uses them, and its signal
\* section reads only indicator variables the indicator section defined.
C24_SignalsAssignedAndDefined ==
    gen_parse.status = "ok" =>
        /\ gen_parse.signal.kind # "unassigned"
        /\ SignalVars(gen_parse.indicators) \subseteq GenerateIndicators(gen_parse.indicators)

----------------------------------------------------------------------------
(* Claims about what the workflow persists *)

\* C25: an execution is marked completed, and a backtest run is stored for
\* it, only when the crew's result carried backtest metrics; a result
\* without metrics in any accepted format never ends as a completed
\* execution or as a stored run whose metrics are all zero.
C25_CompletedOnlyWithMetrics ==
    /\ \A e \in ExecIds : executions[e].status = "completed" => executions[e].cause = "success"
    /\ \A r \in backtest_runs : r.metrics = "parsed"

\* The order of the persisted statuses
StatusRank(status) ==
    CASE status = "none" -> 0
      [] status = "queued" -> 1
      [] status = "analyzing" -> 2
      [] status \in {"completed", "failed"} -> 3

\* C26: the persisted status only moves forward along queued -> analyzing
\* -> (completed | failed): it never goes back, a terminal status is never
\* overwritten, and a status failed always comes with a non-null
\* error_message.
C26_StatusForwardWithMessage ==
    [][\A e \in ExecIds :
         /\ executions'[e].status # executions[e].status
               => /\ StatusRank(executions'[e].status) > StatusRank(executions[e].status)
                  /\ executions[e].status \notin {"completed", "failed"}
         /\ executions'[e].status = "failed" => executions'[e].error_message # "null"]_vars

\* get_execution_results (routers/executions.py:94-146) for an execution
\* that exists: 400 unless completed, 404 without a backtest_run_id or
\* without the row it names, 200 otherwise
GetExecutionResults(e) ==
    IF executions[e].status # "completed" THEN 400
    ELSE IF executions[e].backtest_run_id = 0 THEN 404
    ELSE IF ~ \E r \in backtest_runs : r.id = executions[e].backtest_run_id THEN 404
    ELSE 200

\* C27: whenever the persisted status of an execution is completed, its
\* backtest_run_id is set and names a row already inserted in
\* backtest_runs, and get_execution_results does not answer 404 for it.
C27_CompletedHasStoredRun ==
    \A e \in ExecIds :
        executions[e].status = "completed"
            => /\ executions[e].backtest_run_id # 0
               /\ \E r \in backtest_runs : r.id = executions[e].backtest_run_id
               /\ GetExecutionResults(e) = 200

\* a completed execution next to one whose run was stored but whose
\* completed write was refused by a failing workflow
C27_Witness ==
    /\ \E e \in ExecIds : executions[e].status = "completed" /\ GetExecutionResults(e) = 200
    /\ \E e \in ExecIds : executions[e].status = "failed" /\ GetExecutionResults(e) = 400

----------------------------------------------------------------------------
(* Claims about the strategies of a batch *)

\* C28: every strategy run_autonomous_backtests loaded for the request is
\* accounted for in the outcome: it is in the returned ranking or its
\* backtest was reported as failed; none is left out because the batch holds
\* more strategies than max_concurrent_tests (checked for a positive
\* max_concurrent_tests).
C28_EveryStrategyAccountedFor ==
    (bpc = "returned" /\ max_concurrent >= 1) =>
        \A i \in 1..Len(strategies) :
            \/ strategies[i].id \in RankedIds
            \/ /\ i <= Len(backtest_tasks)
               /\ backtest_tasks[i].result.kind # "metrics"

----------------------------------------------------------------------------
(* Claims about the research ranking *)

\* C29: the candidate score penalises drawdown: of two candidates with
\* equal total_return and equal sharpe_ratio, the one whose max_drawdown (a
\* negative percentage) has the larger magnitude never gets the higher
\* score and is never ranked above the other in all_candidates or
\* top_candidates.
C29_DrawdownPenalised ==
    rs_pc = "done" =>
        \A i, j \in 1..Len(all_candidates) :
            ( /\ all_candidates[i].metrics.total_return = all_candidates[j].metrics.total_return
              /\ all_candidates[i].metrics.sharpe10 = all_candidates[j].metrics.sharpe10
              /\ all_candidates[i].metrics.max_drawdown < all_candidates[j].metrics.max_drawdown )
                => /\ all_candidates[i].score2 <= all_candidates[j].score2
                   /\ i > j
                   /\ i <= Len(top_candidates) => j <= Len(top_candidates)

----------------------------------------------------------------------------
(* Claims about execute_python_code_tool *)

\* stdout holds a start marker, later an end marker, and exactly one JSON
\* document between the first start marker and the first end marker
MetricsBetweenMarkers(out) ==
    \E s, e \in 1..Len(out) :
        /\ out[s] = "start" /\ \A k \in 1..(s - 1) : out[k] # "start"
        /\ out[e] = "end" /\ \A k \in 1..(e - 1) : out[k] # "end"
        /\ e = s + 2
        /\ out[s + 1] = "json"

\* C30: execute_python_code_tool never raises: on every path it returns a
\* JSON object whose status is 'success' or 'error', 'success' only when
\* metrics between the markers were parsed after exit status 0, and the
\* temporary code file no longer exists when it returns.
C30_ToolReturnsAndCleansUp ==
    tool_pc = "done" =>
        /\ tool_result.status \in {"success", "error"}
        /\ tool_result.status = "success"
              => /\ tool_call.proc = "exit_zero"
                 /\ MetricsBetweenMarkers(tool_call.stdout)
                 /\ tool_result.metrics = "parsed"
        /\ temp_file # "exists"

====
